---- MODULE Spec2Model ----
(***************************************************************************)
(* State-machine model of the ID-card issuance backend: the SQL tables,    *)
(* the JWT middleware and the Express route handlers of the organizations, *)
(* users, templates and id-cards routers.  One action is one HTTP request, *)
(* run from the middleware chain to the last response it sends.  A request *)
(* carries a `fault`: the index of the database call that throws (0: no    *)
(* call throws).  The specifications of requests in progress together run  *)
(* a handler as one step per await instead; tempUploads is the directory   *)
(* that multer stores uploaded files in.                                   *)
(***************************************************************************)
EXTENDS Integers, Sequences, FiniteSets, TLC

VARIABLES organizations, users, templates, id_cards, agents, nextId, last, inflight,
          tempUploads

vars == <<organizations, users, templates, id_cards, agents, nextId, last, inflight,
         tempUploads>>

(***************************************************************************)
(* Bounds of the model.                                                    *)
(***************************************************************************)
MaxOrgId == 2        \* organizations.id values handed out
MaxUserId == 5       \* users.id values handed out
MaxTemplateId == 2   \* templates.id values handed out
MaxCardId == 2       \* id_cards.id values handed out

(***************************************************************************)
(* Values.                                                                 *)
(***************************************************************************)
NULL == 0                     \* SQL NULL / JS null or undefined for an id
NoDept == "<null>"            \* SQL NULL in a department column
\* A JSON body member: absent, a string (a sequence of characters or one word)
\* or an array of words.
Undefined == [t |-> "undefined", v |-> <<>>]
Str(s) == [t |-> "string", v |-> s]
Arr(a) == [t |-> "array", v |-> a]
NoUser == [id |-> NULL, role |-> "<none>", organization_id |-> NULL, department |-> NoDept]

Roles == {"owner", "agent", "admin", "staff"}
Departments == {"General", "Sales"}
Mobiles == {1, 2, 3}           \* the mobile numbers requests carry
OrgNames == 1..MaxOrgId        \* the organization names requests carry
AgentIds == {1, 2}

\* templates.ts:9-13
AVAILABLE_FIELDS == {"photo", "id_no", "name", "father_name", "mother_name", "dob",
                     "blood_group", "address", "mobile", "email", "department",
                     "position", "issue_date", "expiry_date"}

\* The template names requests carry, as sequences of characters.
NameStrings == {<<>>, <<" ">>, <<"a">>, <<" ", "a">>, <<"b">>}

\* String.prototype.trim
RECURSIVE TrimLeft(_)
TrimLeft(s) == IF s # <<>> /\ Head(s) = " " THEN TrimLeft(Tail(s)) ELSE s

RECURSIVE TrimRight(_)
TrimRight(s) == IF s # <<>> /\ s[Len(s)] = " " THEN TrimRight(SubSeq(s, 1, Len(s) - 1)) ELSE s

Trim(s) == TrimRight(TrimLeft(s))

(***************************************************************************)
(* The database as one value, and the result of running a handler.         *)
(***************************************************************************)
DB == [organizations |-> organizations, users |-> users, templates |-> templates,
       id_cards |-> id_cards, agents |-> agents, nextId |-> nextId]

\* sent: the statuses of the responses sent, in order; ids: the ids of the rows
\* in the response body; calls: the database calls started; aux: what a handler
\* reports besides (0 when nothing); threw: the code of the error a database
\* call threw and the handler's catch block received ("" when none threw).
Res(db, sent, ids, calls, aux) ==
    [db |-> db, sent |-> sent, ids |-> ids, calls |-> calls, aux |-> aux, threw |-> ""]

\* Database call number `calls` threw inside a try block whose catch answers 500
\* (organization.ts:256-262 and the like).
Caught(db, calls) ==
    [db |-> db, sent |-> <<500>>, ids |-> {}, calls |-> calls, aux |-> 0,
     threw |-> "OTHER"]

(***************************************************************************)
(* utils/pinUtils.ts: bcrypt, as a hash that only its own PIN verifies     *)
(* against.                                                                *)
(***************************************************************************)
GoodPin == Str(<<"1", "2", "3", "4">>)
OtherPin == Str(<<"0", "0", "0", "0">>)

hashPin(pin) == [bcrypt |-> pin.v]

verifyPin(pin, hashedPin) == hashedPin.bcrypt = pin.v

(***************************************************************************)
(* middleware/auth.ts                                                      *)
(***************************************************************************)
\* login (part_003:44-54): the payload signed into the token of a user row.
TokenPayload(u) ==
    [id |-> u.id, role |-> u.role, organization_id |-> u.organization_id,
     department |-> IF u.department = NoDept THEN "General" ELSE u.department]

\* A bearer token: signed by this server and unexpired ("ok"), or not.
Tokens(db) == {[sig |-> "ok", payload |-> TokenPayload(u)] : u \in db.users}
                \cup {[sig |-> "bad", payload |-> NoUser]}

NoToken == [sig |-> "<undefined>", payload |-> NoUser]

\* The Authorization header, split on blanks: absent, a scheme alone, or a
\* scheme and a token.
AuthHeaders(db) == {<<>>, <<"Bearer">>} \cup {<<"Bearer", t>> : t \in Tokens(db)}

\* authHeader && authHeader.split(' ')[1]
HeaderToken(h) == IF Len(h) >= 2 THEN h[2] ELSE NoToken

\* authenticateToken: the status it answers with (0: it calls next()) and req.user.
authenticateToken(h) ==
    LET token == HeaderToken(h) IN
    IF token = NoToken THEN [status |-> 401, user |-> NoUser]
    ELSE IF token.sig # "ok" THEN [status |-> 403, user |-> NoUser]
    ELSE [status |-> 0, user |-> token.payload]

\* requireRole(roles): the status it answers with (0: it calls next()).
requireRoleMissingReturn(roles, user) ==
    IF user = NoUser THEN 401 ELSE 0

requireRole(roles, user) ==
    IF user = NoUser THEN 401
    ELSE IF user.role \notin roles THEN 403
    ELSE 0

\* sanitizeUserData (part_000:8-34): department 'General' for a staff user without one.
sanitizeUserData(user) ==
    IF user.department = NoDept /\ user.role = "staff"
    THEN [user EXCEPT !.department = "General"] ELSE user

\* The middleware chain of a route before its handler: authenticateToken, then
\* requireRole(roles) when the route has one (guarded).  status: what the chain
\* answers with (0: the handler is entered with req.user = user).
Gate(h, guarded, roles) ==
    LET a == authenticateToken(h) IN
    IF a.status # 0 THEN a
    ELSE [status |-> IF guarded THEN requireRole(roles, a.user) ELSE 0, user |-> a.user]

TokenKind(h) == IF HeaderToken(h) = NoToken THEN "none"
                ELSE IF HeaderToken(h).sig = "ok" THEN "valid" ELSE "invalid"

\* The request just served: the database it leaves and what is recorded of it.
Served(ep, h, guarded, roles, user, ran, arg, fault, res) ==
    /\ organizations' = res.db.organizations
    /\ users' = res.db.users
    /\ templates' = res.db.templates
    /\ id_cards' = res.db.id_cards
    /\ agents' = res.db.agents
    /\ nextId' = res.db.nextId
    /\ inflight' = inflight
    /\ tempUploads' = tempUploads
    /\ last' = [ep |-> ep, tok |-> TokenKind(h), user |-> user, guarded |-> guarded,
                roles |-> roles, arg |-> arg, fault |-> fault, ran |-> ran,
                sent |-> res.sent, ids |-> res.ids, calls |-> res.calls,
                aux |-> res.aux, threw |-> res.threw]

\* One request to route `ep`: the chain answers it, or the handler runs on one
\* of the inputs x = [arg, fault, ...] (the path parameter, the database call
\* that throws, the body).
Route(ep, guarded, roles, Inputs, Handler(_, _)) ==
    /\ last.ep = "<none>"
    /\ \E h \in AuthHeaders(DB) :
       LET g == Gate(h, guarded, roles) IN
       IF g.status # 0
       THEN Served(ep, h, guarded, roles, g.user, FALSE, 0, 0,
                   Res(DB, <<g.status>>, {}, 0, 0))
       ELSE \E x \in Inputs :
              Served(ep, h, guarded, roles, g.user, TRUE, x.arg, x.fault,
                     Handler(g.user, x))

(***************************************************************************)
(* routes/templates.ts                                                     *)
(***************************************************************************)
\* The `fields` member of a template body: absent, a string, or an array.
FieldInputs == {Undefined, Str(<<"name">>), Arr(<<>>), Arr(<<"name", "mobile">>),
                Arr(<<"bogus">>)}

\* JS truthiness: every array is truthy, a string unless it is empty.
Truthy(x) == x.t = "array" \/ (x.t = "string" /\ x.v # <<>>)

\* Array.isArray
IsArray(x) == x.t = "array"

\* JSON.stringify of an array of words: the JSON text stored in a column.
JsonStringify(a) == [json |-> "array", items |-> a]

\* safeJsonParse (part_006:14-26): the array a JSON column holds, else [].
safeJsonParse(col) == IF col.json = "array" THEN col.items ELSE <<>>

SeqRange(s) == {s[i] : i \in 1..Len(s)}

\* POST /templates handler (templates.ts:33-101).
\* body: [name, fields]; database calls: 1 SELECT organizations, 2 SELECT
\* templates, 3 INSERT.
CreateTemplateHandler(db, user, body, fault) ==
    IF body.name.t # "string" \/ Trim(body.name.v) = <<>>
    THEN Res(db, <<400>>, {}, 0, 0)
    ELSE IF user.organization_id = NULL
    THEN Res(db, <<400>>, {}, 0, 0)
    ELSE IF fault = 1 THEN Caught(db, 1)
    ELSE IF ~\E o \in db.organizations : o.id = user.organization_id
    THEN Res(db, <<404>>, {}, 1, 0)
    ELSE IF ~IsArray(body.fields) \/ body.fields.v = <<>>
    THEN Res(db, <<400>>, {}, 1, 0)
    ELSE IF \E f \in SeqRange(body.fields.v) : f \notin AVAILABLE_FIELDS
    THEN Res(db, <<400>>, {}, 1, 0)
    ELSE IF fault = 2 THEN Caught(db, 2)
    ELSE IF \E t \in db.templates :
               t.name = Trim(body.name.v) /\ t.organization_id = user.organization_id
    THEN Res(db, <<409>>, {}, 2, 0)
    ELSE IF fault = 3 THEN Caught(db, 3)
    ELSE LET row == [id |-> db.nextId.templates, name |-> Trim(body.name.v),
                     organization_id |-> user.organization_id,
                     fields |-> JsonStringify(body.fields.v)]
         IN Res([db EXCEPT !.templates = @ \cup {row},
                           !.nextId.templates = @ + 1],
                <<201>>, {row.id}, 3, 0)

\* PUT /templates/:id handler (templates.ts:176-225).
\* body: [name, fields, rest]; rest: the other bound columns (cardSize,
\* orientation, backgroundColor, textColor) are all present.  mysql2 refuses a
\* statement with an undefined bind parameter before it reaches the server.
\* Database call: 1 UPDATE.
UpdateTemplateHandler(db, user, id, body, fault) ==
    IF user.organization_id = NULL
    THEN Res(db, <<400>>, {}, 0, 0)
    ELSE IF Truthy(body.fields) /\ ~IsArray(body.fields)
    THEN Res(db, <<400>>, {}, 0, 0)
    ELSE IF body.name = Undefined \/ ~body.rest \/ fault = 1
    THEN Caught(db, 1)
    ELSE LET stored == IF Truthy(body.fields) THEN body.fields.v ELSE <<>>
             upd(t) == IF t.id = id /\ t.organization_id = user.organization_id
                       THEN [t EXCEPT !.name = body.name.v,
                                      !.fields = JsonStringify(stored)]
                       ELSE t
         IN Res([db EXCEPT !.templates = {upd(t) : t \in @}], <<200>>, {}, 1, 0)

\* The schema's foreign key from id_cards.template_id to templates.id: the
\* server refuses to delete a template that a card refers to.
TemplateReferenced(db, id) == \E c \in db.id_cards : c.template_id = id

\* DELETE /templates/:id handler (templates.ts:232-248).  Database call: 1 DELETE.
DeleteTemplateHandler(db, user, id, fault) ==
    IF fault = 1 THEN Caught(db, 1)
    ELSE IF /\ \E t \in db.templates : t.id = id /\ t.organization_id = user.organization_id
            /\ TemplateReferenced(db, id)
    THEN Caught(db, 1)
    ELSE Res([db EXCEPT !.templates =
                  {t \in @ : ~(t.id = id /\ t.organization_id = user.organization_id)}],
             <<200>>, {}, 1, 0)

NameInputs == {Str(s) : s \in NameStrings} \cup {Undefined}

TemplateBodies == [name : NameInputs, fields : FieldInputs, rest : BOOLEAN]

CreateTemplate ==
    /\ nextId.templates <= MaxTemplateId
    /\ Route("POST /templates", TRUE, {"admin"},
             [arg : {0}, fault : 0..3, body : {b \in TemplateBodies : b.rest}],
             LAMBDA u, x : CreateTemplateHandler(DB, u, x.body, x.fault))

UpdateTemplate ==
    Route("PUT /templates/:id", TRUE, {"admin"},
          [arg : 1..MaxTemplateId, fault : 0..1, body : TemplateBodies],
          LAMBDA u, x : UpdateTemplateHandler(DB, u, x.arg, x.body, x.fault))

DeleteTemplate ==
    Route("DELETE /templates/:id", TRUE, {"admin"},
          [arg : 1..MaxTemplateId, fault : 0..1],
          LAMBDA u, x : DeleteTemplateHandler(DB, u, x.arg, x.fault))

(***************************************************************************)
(* routes/organization.ts                                                  *)
(***************************************************************************)
\* The `pin` member of an organization body.
PinInputs == {Undefined, Str(<<"1", "2", "3">>), Str(<<"1", "2", "3", "x">>),
              Str(<<"1", "2", "3", "4">>)}

Digits == {"0", "1", "2", "3", "4", "5", "6", "7", "8", "9"}

\* error.code / error.sqlMessage of a failing INSERT.
ErrorCodes == {"ER_DUP_ENTRY mobile", "ER_DUP_ENTRY", "OTHER"}

\* The outer catch of POST /organizations (organization.ts:175-190).
CreateOrganizationOuterCatch(code) ==
    IF code \in {"ER_DUP_ENTRY mobile", "ER_DUP_ENTRY"} THEN <<400>> ELSE <<500>>

\* The inner catch (organization.ts:159-173) after rollback(): the responses the
\* request ends with.  A failing rollback throws out of the catch block.
CreateOrganizationInnerCatchFallThrough(code, rollbackFails) ==
    IF rollbackFails THEN CreateOrganizationOuterCatch("OTHER")
    ELSE IF code = "ER_DUP_ENTRY mobile"
    THEN <<400>> \o CreateOrganizationOuterCatch(code)
    ELSE CreateOrganizationOuterCatch(code)

CreateOrganizationInnerCatch(code, rollbackFails) ==
    IF rollbackFails THEN CreateOrganizationOuterCatch("OTHER")
    ELSE IF code = "ER_DUP_ENTRY mobile" THEN <<400>>
    ELSE CreateOrganizationOuterCatch(code)

\* What the transaction of POST /organizations leaves in the database
\* (organization.ts:95-132): the rows it inserted on `connection` are kept when
\* the commit took effect and dropped otherwise.  The ids a dropped INSERT took
\* are handed out again: no handler compares ids except for equality.
TransactionNotRolledBack(db, inTx, committed) == inTx

Transaction(db, inTx, committed) ==
    IF committed THEN inTx ELSE db

\* POST /organizations handler (organization.ts:10-191).
\* body: [name, mobile, agentId, pin, rest]; rest: address, email, contactPerson
\* and designation are all present.
\* Database calls: 1 SELECT agents, 2 SELECT organizations, 3 SELECT users,
\* 4 getConnection, 5 beginTransaction, 6 INSERT organizations, 7 INSERT users,
\* 8 commit.  f: [at, code, rollbackFails, landed]: the call that throws, the
\* error code of a failing INSERT, whether rollback() throws as well, and
\* whether a commit that threw took effect on the server all the same.
\* aux: the id of the organization row the request inserted or would insert.
CreateOrganizationHandler(db, user, body, f) ==
    IF body.name = NULL \/ ~body.rest \/ body.mobile = NULL \/ body.pin = Undefined
       \/ body.agentId = NULL
    THEN Res(db, <<400>>, {}, 0, 0)
    ELSE IF Len(body.pin.v) # 4 THEN Res(db, <<400>>, {}, 0, 0)
    ELSE IF \E i \in 1..Len(body.pin.v) : body.pin.v[i] \notin Digits
    THEN Res(db, <<400>>, {}, 0, 0)
    ELSE IF f.at = 1
    THEN [Caught(db, 1) EXCEPT !.sent = CreateOrganizationOuterCatch("OTHER")]
    ELSE IF ~\E a \in db.agents : a.id = body.agentId /\ a.status = "active"
    THEN Res(db, <<400>>, {}, 1, 0)
    ELSE IF f.at = 2
    THEN [Caught(db, 2) EXCEPT !.sent = CreateOrganizationOuterCatch("OTHER")]
    ELSE IF \E o \in db.organizations : o.name = body.name
    THEN Res(db, <<400>>, {}, 2, 0)
    ELSE IF f.at = 3
    THEN [Caught(db, 3) EXCEPT !.sent = CreateOrganizationOuterCatch("OTHER")]
    ELSE IF \E u \in db.users : u.mobile = body.mobile /\ u.role = "admin"
    THEN Res(db, <<400>>, {}, 3, 0)
    ELSE IF f.at \in {4, 5}
    THEN [Caught(db, f.at) EXCEPT !.sent = CreateOrganizationOuterCatch("OTHER")]
    ELSE
      LET orgId == db.nextId.organizations
          org == [id |-> orgId, name |-> body.name, mobile |-> body.mobile,
                  agent_id |-> body.agentId, status |-> "active"]
          admin == [id |-> db.nextId.users, mobile |-> body.mobile, role |-> "admin",
                    organization_id |-> orgId, department |-> NoDept,
                    status |-> "active", pin_hash |-> hashPin(body.pin)]
          tx1 == [db EXCEPT !.organizations = @ \cup {org},
                            !.nextId.organizations = @ + 1]
          tx2 == [tx1 EXCEPT !.users = @ \cup {admin}, !.nextId.users = @ + 1]
          failed(left, code) ==
              [db |-> left, sent |-> CreateOrganizationInnerCatch(code, f.rollbackFails),
               ids |-> {}, calls |-> f.at, aux |-> orgId,
               threw |-> IF f.rollbackFails THEN "OTHER" ELSE code]
      IN IF f.at = 6 THEN failed(Transaction(db, db, FALSE), f.code)
         ELSE IF f.at = 7 THEN failed(Transaction(db, tx1, FALSE), f.code)
         ELSE IF f.at = 8 THEN failed(Transaction(db, tx2, f.landed), "OTHER")
         ELSE Res(Transaction(db, tx2, TRUE), <<201>>, {orgId}, 8, orgId)

\* The rows the query of GET /organizations selects for an owner, an agent or
\* an admin (organization.ts:199-240).
OrganizationsVisibleAgentSeesAll(db, user) ==
    IF user.role \in {"owner", "agent"} THEN db.organizations
    ELSE {o \in db.organizations : o.id = user.organization_id}

OrganizationsVisible(db, user) ==
    IF user.role = "owner" THEN db.organizations
    ELSE IF user.role = "agent" THEN {o \in db.organizations : o.agent_id = user.id}
    ELSE {o \in db.organizations : o.id = user.organization_id}

\* GET /organizations handler (organization.ts:194-263).  Database call: 1 SELECT.
GetOrganizationsHandler(db, user, fault) ==
    IF user.role \notin {"owner", "agent", "admin"} THEN Res(db, <<403>>, {}, 0, 0)
    ELSE IF fault = 1 THEN Caught(db, 1)
    ELSE Res(db, <<200>>, {o.id : o \in OrganizationsVisible(db, user)}, 1, 0)

\* The access check shared by GET /organizations/:id and /:id/stats
\* (organization.ts:270-289, 528-547): 403, 500, or 0 to go on; database call 1
\* is the agent's SELECT.
OrganizationAccess(db, user, id, fault) ==
    IF user.role = "admin" /\ user.organization_id # id THEN 403
    ELSE IF user.role = "agent"
    THEN IF fault = 1 THEN 500
         ELSE IF ~\E o \in db.organizations : o.id = id /\ o.agent_id = user.id
         THEN 403 ELSE 0
    ELSE 0

\* GET /organizations/:id handler (organization.ts:266-354).  Database calls:
\* 1 the agent's SELECT, 2 SELECT organization, 3 SELECT admins, 4 SELECT
\* departmentStats.
GetOrganizationHandler(db, user, id, fault) ==
    LET access == OrganizationAccess(db, user, id, fault) IN
    IF access = 500 THEN Caught(db, 1)
    ELSE IF access # 0
    THEN Res(db, <<access>>, {}, IF user.role = "agent" THEN 1 ELSE 0, 0)
    ELSE IF fault = 2 THEN Caught(db, 2)
    ELSE IF ~\E o \in db.organizations : o.id = id THEN Res(db, <<404>>, {}, 2, 0)
    ELSE IF fault \in {3, 4} THEN Caught(db, fault)
    ELSE Res(db, <<200>>, {id}, 4, 0)

\* GET /organizations/:id/stats handler (organization.ts:524-596).  Database
\* calls: 1 the agent's SELECT, 2..5 the four statistics queries.  ids: the
\* organization the statistics returned are about.
GetOrganizationStatsHandler(db, user, id, fault) ==
    LET access == OrganizationAccess(db, user, id, fault) IN
    IF access = 500 THEN Caught(db, 1)
    ELSE IF access # 0
    THEN Res(db, <<access>>, {}, IF user.role = "agent" THEN 1 ELSE 0, 0)
    ELSE IF fault \in 2..5 THEN Caught(db, fault)
    ELSE Res(db, <<200>>, {id}, 5, 0)

\* PUT /organizations/:id handler (organization.ts:357-469).
\* body: [name, mobile, other]; name, mobile: NULL when absent; other: one of
\* the remaining columns is present.  Database calls: 1 the agent's SELECT,
\* 2 UPDATE organizations, 3 UPDATE users.
UpdateOrganizationHandler(db, user, id, body, fault) ==
    LET access == IF user.role = "agent"
                  THEN IF fault = 1 THEN 500
                       ELSE IF ~\E o \in db.organizations : o.id = id /\ o.agent_id = user.id
                       THEN 403 ELSE 0
                  ELSE IF user.role = "admin" /\ user.organization_id # id THEN 403
                  ELSE 0
        n0 == IF user.role = "agent" THEN 1 ELSE 0
    IN
    IF access = 500 THEN Caught(db, 1)
    ELSE IF access # 0 THEN Res(db, <<access>>, {}, n0, 0)
    ELSE IF body.name = NULL /\ body.mobile = NULL /\ ~body.other
    THEN Res(db, <<400>>, {}, n0, 0)
    ELSE IF fault = 2 THEN Caught(db, 2)
    ELSE
      LET updOrg(o) == IF o.id # id THEN o
                       ELSE [o EXCEPT !.name = IF body.name # NULL THEN body.name ELSE @,
                                      !.mobile = IF body.mobile # NULL THEN body.mobile ELSE @]
          db1 == [db EXCEPT !.organizations = {updOrg(o) : o \in @}]
          updUser(u) == IF u.organization_id = id /\ u.role = "admin"
                        THEN [u EXCEPT !.mobile = body.mobile] ELSE u
          db2 == [db1 EXCEPT !.users = {updUser(u) : u \in @}]
      IN IF ~\E o \in db.organizations : o.id = id THEN Res(db1, <<404>>, {}, 2, 0)
         ELSE IF body.mobile = NULL THEN Res(db1, <<200>>, {id}, 2, 0)
         ELSE IF fault = 3 THEN Caught(db1, 3)
         ELSE Res(db2, <<200>>, {id}, 3, 0)

(***************************************************************************)
(* routes/users.ts                                                         *)
(***************************************************************************)
\* The rows the query of GET /users selects for a caller (users.ts:21-34).
UsersListedAdminSeesAll(db, user) ==
    IF user.role \in {"owner", "admin"} THEN db.users
    ELSE {x \in db.users : x.id = user.id}

UsersListed(db, user) ==
    IF user.role = "owner" THEN db.users
    ELSE IF user.role = "admin"
    THEN {x \in db.users : x.organization_id = user.organization_id}
    ELSE {x \in db.users : x.id = user.id}

\* GET /users handler (users.ts:9-43).  Database call: 1 SELECT.
GetUsersHandler(db, user, fault) ==
    IF user.role = "admin" /\ user.organization_id = NULL
    THEN Res(db, <<400>>, {}, 0, 0)
    ELSE IF fault = 1 THEN Caught(db, 1)
    ELSE Res(db, <<200>>, {u.id : u \in UsersListed(db, user)}, 1, 0)

\* POST /users/register-staff handler (users.ts:46-82).
\* body: [mobile, department, pin]; hashPin throws for an absent pin.
\* Database calls: 1 SELECT users, 2 INSERT.
RegisterStaffHandler(db, user, body, fault) ==
    IF user.organization_id = NULL THEN Res(db, <<403>>, {}, 0, 0)
    ELSE IF fault = 1 THEN Caught(db, 1)
    ELSE IF \E u \in db.users : u.mobile = body.mobile THEN Res(db, <<400>>, {}, 1, 0)
    ELSE IF body.pin = Undefined THEN Caught(db, 1)
    ELSE IF fault = 2 THEN Caught(db, 2)
    ELSE LET row == [id |-> db.nextId.users, mobile |-> body.mobile, role |-> "staff",
                     organization_id |-> user.organization_id,
                     department |-> body.department, status |-> "active",
                     pin_hash |-> hashPin(body.pin)]
         IN Res([db EXCEPT !.users = @ \cup {row}, !.nextId.users = @ + 1],
                <<201>>, {row.id}, 2, 0)

(***************************************************************************)
(* services/userServices.ts and routes/idCards.ts (part_006)               *)
(***************************************************************************)
\* getDefaultDepartment (userServices.ts:66-73)
getDefaultDepartment(role) ==
    IF role = "staff" THEN "General"
    ELSE IF role = "admin" THEN "Administration"
    ELSE IF role = "owner" THEN "Management"
    ELSE "General"

\* getMaxIdCards (userServices.ts:75-82)
getMaxIdCards(role) ==
    IF role = "staff" THEN 100
    ELSE IF role = "admin" THEN 1000
    ELSE IF role = "owner" THEN 10000
    ELSE 100

\* getUserWithDefaults (userServices.ts:22-36): organization_id || 0 is NULL here.
getUserWithDefaults(user) ==
    [id |-> user.id, role |-> user.role,
     organization_id |-> user.organization_id,
     department |-> IF user.department = NoDept
                    THEN getDefaultDepartment(user.role) ELSE user.department,
     canCreateTemplates |-> user.role \in {"admin", "owner"},
     canManageUsers |-> user.role = "owner",
     maxIdCards |-> getMaxIdCards(user.role)]

\* The members of an id-card body that the template's field list can require
\* (part_006:106-126), as the field names they are checked under.
CheckedFields == {"name", "id_no", "photo", "mobile", "dob", "blood_group", "email",
                  "address", "father_name", "mother_name"}

\* The rows of SELECT ... FROM templates t WHERE t.id = ? AND t.organization_id = ?
\* (part_006:94-97).
TemplateWithId(db, templateId, organizationId) ==
    {t \in db.templates : t.id = templateId}

TemplateOfOrganization(db, templateId, organizationId) ==
    {t \in db.templates : /\ t.id = templateId /\ organizationId # NULL
                          /\ t.organization_id = organizationId}

\* POST /id-cards handler (part_006:77-198), after sanitizeUserData.
\* body: [templateId, idNo, has, department]; templateId, idNo: NULL when absent;
\* has: the checked members that carry a non-empty value ("id_no" is in it
\* exactly when idNo is present).  Database calls: 1 SELECT templates, 2 SELECT
\* COUNT, 3 SELECT id_cards, 4 INSERT, 5 SELECT the created card.
CreateIdCardHandler(db, user, body, fault) ==
    LET businessUser == getUserWithDefaults(user) IN
    IF ~businessUser.canCreateTemplates THEN Res(db, <<403>>, {}, 0, 0)
    ELSE IF body.templateId = NULL \/ "name" \notin body.has \/ body.idNo = NULL
            \/ "photo" \notin body.has
    THEN Res(db, <<400>>, {}, 0, 0)
    ELSE IF fault = 1 THEN Caught(db, 1)
    ELSE IF TemplateOfOrganization(db, body.templateId, user.organization_id) = {}
    THEN Res(db, <<400>>, {}, 1, 0)
    ELSE
      LET template == CHOOSE t \in db.templates : t.id = body.templateId
          requiredFields == SeqRange(safeJsonParse(template.fields))
          missingFields == (requiredFields \cap CheckedFields) \ (body.has \cup {"id_no"})
          row == [id |-> db.nextId.id_cards, template_id |-> body.templateId,
                  organization_id |-> user.organization_id,
                  department |-> body.department, created_by |-> user.id,
                  id_no |-> body.idNo, status |-> "active"]
          db1 == [db EXCEPT !.id_cards = @ \cup {row}, !.nextId.id_cards = @ + 1]
      IN IF missingFields # {} THEN Res(db, <<400>>, {}, 1, 0)
         ELSE IF fault = 2 THEN Caught(db, 2)
         ELSE IF Cardinality({c \in db.id_cards : c.created_by = user.id})
                   >= businessUser.maxIdCards
         THEN Res(db, <<400>>, {}, 2, 0)
         ELSE IF fault = 3 THEN Caught(db, 3)
         ELSE IF \E c \in db.id_cards : c.id_no = body.idNo
                                         /\ c.organization_id = user.organization_id
         THEN Res(db, <<400>>, {}, 3, 0)
         ELSE IF fault = 4 THEN Caught(db, 4)
         ELSE IF fault = 5 THEN Caught(db1, 5)
         ELSE Res(db1, <<201>>, {row.id}, 5, 0)

\* The rows the query of GET /id-cards selects for an owner, an admin or a
\* staff caller (part_006:206-253).
IdCardsListedAdminSeesAll(db, safeUser) ==
    IF safeUser.role \in {"owner", "admin"} THEN db.id_cards
    ELSE {x \in db.id_cards :
            /\ x.created_by = safeUser.id
            /\ \/ x.department = safeUser.department
               \/ x.department = NoDept
               \/ safeUser.department = NoDept}

IdCardsListed(db, safeUser) ==
    IF safeUser.role = "owner" THEN db.id_cards
    ELSE IF safeUser.role = "admin"
    THEN {x \in db.id_cards : /\ safeUser.organization_id # NULL
                              /\ x.organization_id = safeUser.organization_id}
    ELSE {x \in db.id_cards :
            /\ x.created_by = safeUser.id
            /\ \/ x.department = safeUser.department
               \/ x.department = NoDept
               \/ safeUser.department = NoDept}

\* The statement GET /id-cards chooses (part_006:204-253), by the rows it
\* selects; `query` starts as '' and stays so when no branch is taken.
IdCardsQuery(safeUser) ==
    IF safeUser.role = "owner" THEN "all id_cards"
    ELSE IF safeUser.role = "admin" THEN "id_cards of the organization"
    ELSE IF safeUser.role = "staff" THEN "id_cards of the creator"
    ELSE ""

\* GET /id-cards handler (part_006:200-277), after sanitizeUserData.  A caller
\* that is neither owner, admin nor staff leaves `query` empty, and the server
\* refuses the empty statement.  Database call: 1 SELECT.
GetIdCardsHandler(db, user, fault) ==
    LET safeUser == getUserWithDefaults(user) IN
    IF fault = 1 THEN Caught(db, 1)
    ELSE IF IdCardsQuery(safeUser) = "" THEN Caught(db, 1)
    ELSE Res(db, <<200>>, {c.id : c \in IdCardsListed(db, safeUser)}, 1, 0)

\* The WHERE clause GET /id-cards/:id chooses for a caller (part_006:285-323).
IdCardRowVisible(user, c) ==
    IF user.role = "staff" THEN c.created_by = user.id
    ELSE IF user.role = "admin"
    THEN user.organization_id # NULL /\ c.organization_id = user.organization_id
    ELSE TRUE

\* GET /id-cards/:id handler (part_006:279-354).  Database call: 1 SELECT.
GetIdCardHandler(db, user, id, fault) ==
    LET safeUser == getUserWithDefaults(user) IN
    IF fault = 1 THEN Caught(db, 1)
    ELSE IF ~\E c \in db.id_cards : c.id = id /\ IdCardRowVisible(safeUser, c)
    THEN Res(db, <<404>>, {}, 1, 0)
    ELSE Res(db, <<200>>, {id}, 1, 0)

(***************************************************************************)
(* The requests.                                                           *)
(***************************************************************************)
NoFault == [at |-> 0, code |-> "OTHER", rollbackFails |-> FALSE, landed |-> FALSE]

\* The ways a database call of POST /organizations fails.
OrgFaults ==
    {NoFault}
    \cup {[NoFault EXCEPT !.at = i] : i \in 1..5}
    \cup {[at |-> i, code |-> c, rollbackFails |-> r, landed |-> FALSE] :
            i \in {6, 7}, c \in ErrorCodes, r \in BOOLEAN}
    \cup {[at |-> 8, code |-> "OTHER", rollbackFails |-> r, landed |-> l] :
            r \in BOOLEAN, l \in BOOLEAN}


\* Bodies of POST /organizations: the complete ones, and one body with each
\* member missing or malformed in turn.
ValidOrgBodies(agentIds) ==
    [name : OrgNames, mobile : Mobiles, agentId : agentIds,
     pin : {GoodPin}, rest : {TRUE}]

InvalidOrgBodies ==
    {[name |-> NULL, mobile |-> 1, agentId |-> 1, pin |-> GoodPin, rest |-> TRUE],
          [name |-> 1, mobile |-> NULL, agentId |-> 1, pin |-> GoodPin, rest |-> TRUE],
          [name |-> 1, mobile |-> 1, agentId |-> NULL, pin |-> GoodPin, rest |-> TRUE],
          [name |-> 1, mobile |-> 1, agentId |-> 1, pin |-> GoodPin, rest |-> FALSE]}
    \cup {[name |-> 1, mobile |-> 1, agentId |-> 1, pin |-> p, rest |-> TRUE] :
            p \in PinInputs \ {GoodPin}}

\* POST /organizations with agentId drawn from agentIds and a fault from faults.
CreateOrganizationOf(agentIds, faults) ==
    /\ nextId.organizations <= MaxOrgId
    /\ nextId.users <= MaxUserId
    /\ Route("POST /organizations", TRUE, {"owner", "agent"},
             {[arg |-> 0, fault |-> f.at, f |-> f, body |-> b] :
                f \in faults, b \in ValidOrgBodies(agentIds)}
             \cup {[arg |-> 0, fault |-> 0, f |-> NoFault, body |-> b] :
                     b \in InvalidOrgBodies},
             LAMBDA u, x : CreateOrganizationHandler(DB, u, x.body, x.f))

\* Every fault, one agent that exists (1) and one that does not (3).
CreateOrganization == CreateOrganizationOf({1, 3}, OrgFaults)

\* No fault, every agent.
CreateOrganizationOk == CreateOrganizationOf(AgentIds \cup {3}, {NoFault})

\* Bodies of PUT /organizations/:id: a name, a mobile number, both, another
\* column alone, or nothing.
OrgUpdates ==
    [name : OrgNames \cup {NULL}, mobile : Mobiles \cup {NULL}, other : {FALSE}]
    \cup {[name |-> NULL, mobile |-> NULL, other |-> TRUE]}

UpdateOrganization ==
    Route("PUT /organizations/:id", TRUE, {"owner", "agent", "admin"},
          [arg : 1..MaxOrgId, fault : 0..3, body : OrgUpdates],
          LAMBDA u, x : UpdateOrganizationHandler(DB, u, x.arg, x.body, x.fault))

GetOrganizations ==
    Route("GET /organizations", FALSE, Roles, [arg : {0}, fault : 0..1],
          LAMBDA u, x : GetOrganizationsHandler(DB, u, x.fault))

GetOrganization ==
    Route("GET /organizations/:id", FALSE, Roles, [arg : 1..MaxOrgId, fault : 0..4],
          LAMBDA u, x : GetOrganizationHandler(DB, u, x.arg, x.fault))

GetOrganizationStats ==
    Route("GET /organizations/:id/stats", FALSE, Roles,
          [arg : 1..MaxOrgId, fault : 0..5],
          LAMBDA u, x : GetOrganizationStatsHandler(DB, u, x.arg, x.fault))

GetUsers ==
    Route("GET /users", FALSE, Roles, [arg : {0}, fault : 0..1],
          LAMBDA u, x : GetUsersHandler(DB, u, x.fault))

StaffBodies(departments) ==
    [mobile : Mobiles, department : departments, pin : {Undefined, GoodPin}]

\* POST /users/register-staff with a department from departments and a fault
\* from faults.
RegisterStaffOf(departments, faults) ==
    /\ nextId.users <= MaxUserId
    /\ Route("POST /users/register-staff", TRUE, {"admin"},
             [arg : {0}, fault : faults, body : StaffBodies(departments)],
             LAMBDA u, x : RegisterStaffHandler(DB, u, x.body, x.fault))

RegisterStaff == RegisterStaffOf({NoDept}, 0..2)

RegisterStaffOk == RegisterStaffOf({"Sales", NoDept}, {0})

CardBodies == [templateId : 0..MaxTemplateId, idNo : 0..2,
               has : SUBSET {"name", "photo", "mobile"},
               department : Departments \cup {NoDept}]

CreateIdCard ==
    /\ nextId.id_cards <= MaxCardId
    /\ Route("POST /id-cards", TRUE, {"admin", "staff"},
             [arg : {0}, fault : 0..5, body : CardBodies],
             LAMBDA u, x : CreateIdCardHandler(DB, sanitizeUserData(u), x.body, x.fault))

GetIdCards ==
    Route("GET /id-cards", FALSE, Roles, [arg : {0}, fault : 0..1],
          LAMBDA u, x : GetIdCardsHandler(DB, sanitizeUserData(u), x.fault))

GetIdCard ==
    Route("GET /id-cards/:id", FALSE, Roles, [arg : 1..MaxCardId, fault : 0..1],
          LAMBDA u, x : GetIdCardHandler(DB, sanitizeUserData(u), x.arg, x.fault))

(***************************************************************************)
(* Initial states.  The owner and the agent's user row are not created by  *)
(* any route (fix-owner-pin.ts:15-19 presumes the owner row); their mobile *)
(* numbers lie outside the numbers the requests carry.                     *)
(***************************************************************************)
Owner == [id |-> 1, mobile |-> 8, role |-> "owner",
          organization_id |-> NULL, department |-> NoDept, status |-> "active",
          pin_hash |-> hashPin(GoodPin)]

AgentUser == [id |-> 2, mobile |-> 9, role |-> "agent",
              organization_id |-> NULL, department |-> NoDept, status |-> "active",
              pin_hash |-> hashPin(GoodPin)]

EmptyDB ==
    [organizations |-> {}, users |-> {Owner, AgentUser}, templates |-> {},
     id_cards |-> {}, agents |-> {[id |-> a, status |-> "active"] : a \in AgentIds},
     nextId |-> [organizations |-> 1, users |-> 3, templates |-> 1, id_cards |-> 1]]

\* Two organizations created by the owner, with their admins (users 3 and 4),
\* and a staff member of the first (user 5).
OrgBody(n, m, a) == [name |-> n, mobile |-> m, agentId |-> a, pin |-> GoodPin, rest |-> TRUE]

TwoOrgsDB ==
    LET d1 == CreateOrganizationHandler(EmptyDB, TokenPayload(Owner),
                                        OrgBody(1, 1, 1), NoFault).db
        d2 == CreateOrganizationHandler(d1, TokenPayload(Owner), OrgBody(2, 2, 2),
                                        NoFault).db
        admin1 == CHOOSE u \in d2.users : u.role = "admin" /\ u.organization_id = 1
    IN RegisterStaffHandler(d2, TokenPayload(admin1),
                            [mobile |-> 3, department |-> "Sales", pin |-> GoodPin], 0).db

\* ... and a template in each organization.
TwoTemplatesDB ==
    LET admin(o) == CHOOSE u \in TwoOrgsDB.users : u.role = "admin" /\ u.organization_id = o
        d1 == CreateTemplateHandler(TwoOrgsDB, TokenPayload(admin(1)),
                  [name |-> Str(<<"a">>), fields |-> Arr(<<"name", "mobile">>), rest |-> TRUE],
                  0).db
    IN CreateTemplateHandler(d1, TokenPayload(admin(2)),
                  [name |-> Str(<<"a">>), fields |-> Arr(<<"name", "department">>), rest |-> TRUE],
                  0).db

NoRequest == [ep |-> "<none>", tok |-> "none", user |-> NoUser, guarded |-> FALSE,
              roles |-> Roles, arg |-> 0, fault |-> 0, ran |-> FALSE, sent |-> <<>>,
              ids |-> {}, calls |-> 0, aux |-> 0, threw |-> ""]

InitFrom(db) ==
    /\ organizations = db.organizations
    /\ users = db.users
    /\ templates = db.templates
    /\ id_cards = db.id_cards
    /\ agents = db.agents
    /\ nextId = db.nextId
    /\ inflight = {}
    /\ tempUploads = {}
    /\ last = NoRequest

\* The response has left and the request's objects are dropped: the server
\* keeps nothing of a request but the rows it wrote.
EndRequest ==
    /\ last.ep # "<none>"
    /\ last' = NoRequest
    /\ UNCHANGED <<organizations, users, templates, id_cards, agents, tempUploads, nextId, inflight>>

\* Organizations and users: the writes, from the empty database.
Init == InitFrom(EmptyDB)
Next == CreateOrganization \/ UpdateOrganization \/ RegisterStaff \/ EndRequest
Spec == Init /\ [][Next]_vars

\* Organization creation alone, with every failure of its database calls.
InitCreate == InitFrom(EmptyDB)
NextCreate == CreateOrganization \/ EndRequest
SpecCreate == InitCreate /\ [][NextCreate]_vars

\* Organizations and users: the reads, over the databases the writes build.
InitViews == InitFrom(EmptyDB)
NextViews == \/ CreateOrganizationOk \/ RegisterStaffOk
             \/ GetOrganizations \/ GetOrganization \/ GetOrganizationStats \/ GetUsers
             \/ EndRequest
SpecViews == InitViews /\ [][NextViews]_vars

\* Templates of two organizations.
InitTemplates == InitFrom(TwoOrgsDB)
NextTemplates == CreateTemplate \/ UpdateTemplate \/ DeleteTemplate \/ EndRequest
SpecTemplates == InitTemplates /\ [][NextTemplates]_vars

\* ID cards of two organizations.
InitCards == InitFrom(TwoTemplatesDB)
NextCards == CreateIdCard \/ GetIdCards \/ GetIdCard \/ EndRequest
SpecCards == InitCards /\ [][NextCards]_vars


(***************************************************************************)
(* routes/organization.ts: DELETE /:id; routes/auth.ts (part_003): login   *)
(***************************************************************************)
\* DELETE /organizations/:id handler (organization.ts:472-521).  Database
\* calls: 1 the agent's SELECT, 2 UPDATE organizations, 3 UPDATE users.
DeleteOrganizationHandler(db, user, id, fault) ==
    LET n0 == IF user.role = "agent" THEN 1 ELSE 0
        db1 == [db EXCEPT !.organizations =
                   {IF o.id = id THEN [o EXCEPT !.status = "inactive"] ELSE o : o \in @}]
        db2 == [db1 EXCEPT !.users =
                   {IF u.organization_id = id THEN [u EXCEPT !.status = "inactive"] ELSE u
                      : u \in @}]
    IN
    IF user.role = "agent" /\ fault = 1 THEN Caught(db, 1)
    ELSE IF /\ user.role = "agent"
            /\ ~\E o \in db.organizations : o.id = id /\ o.agent_id = user.id
    THEN Res(db, <<403>>, {}, 1, 0)
    ELSE IF fault = 2 THEN Caught(db, 2)
    ELSE IF ~\E o \in db.organizations : o.id = id THEN Res(db, <<404>>, {}, 2, 0)
    ELSE IF fault = 3 THEN Caught(db1, 3)
    ELSE Res(db2, <<200>>, {id}, 3, 0)

DeleteOrganization ==
    Route("DELETE /organizations/:id", TRUE, {"owner", "agent"},
          [arg : 1..MaxOrgId, fault : 0..3],
          LAMBDA u, x : DeleteOrganizationHandler(DB, u, x.arg, x.fault))

\* POST /users/register-staff with either PIN.
RegisterStaffWithPin ==
    /\ nextId.users <= MaxUserId
    /\ Route("POST /users/register-staff", TRUE, {"admin"},
             [arg : {0}, fault : {0},
              body : [mobile : Mobiles, department : {NoDept}, pin : {GoodPin, OtherPin}]],
             LAMBDA u, x : RegisterStaffHandler(DB, u, x.body, x.fault))

\* The rows login's SELECT returns (part_003:20-23).
UsersWithMobileAnyStatus(db, mobile) == {u \in db.users : u.mobile = mobile}

ActiveUsersWithMobile(db, mobile) ==
    {u \in db.users : u.mobile = mobile /\ u.status = "active"}

InvalidMobileOrPin == "Invalid mobile or PIN"

\* POST /auth/login handler (part_003:9-74).  body: [mobile, pin]; first: the
\* row the SELECT returns first, when it returns any.  Database call: 1 SELECT.
\* token: the payload signed, NoUser when no token is issued; error: the
\* message of the response.
LoginHandler(db, body, first, fault) ==
    LET answer(res, token, error) == [res |-> res, token |-> token, error |-> error]
    IN
    IF body.mobile = NULL \/ ~Truthy(body.pin)
    THEN answer(Res(db, <<400>>, {}, 0, 0), NoUser, "Mobile and PIN are required")
    ELSE IF fault = 1 THEN answer(Caught(db, 1), NoUser, "Internal server error")
    ELSE IF ActiveUsersWithMobile(db, body.mobile) = {}
    THEN answer(Res(db, <<401>>, {}, 1, 0), NoUser, InvalidMobileOrPin)
    ELSE IF ~verifyPin(body.pin, first.pin_hash)
    THEN answer(Res(db, <<401>>, {}, 1, 0), NoUser, InvalidMobileOrPin)
    ELSE answer(Res(db, <<200>>, {first.id}, 1, 0), TokenPayload(first), "")

LoginBodies == [mobile : Mobiles \cup {NULL, 8}, pin : {Undefined, GoodPin, OtherPin}]

\* The rows that can come first in the result of login's SELECT (NoUser: none).
FirstRows(db, body) ==
    IF body.mobile = NULL \/ ActiveUsersWithMobile(db, body.mobile) = {}
    THEN {NoUser} ELSE ActiveUsersWithMobile(db, body.mobile)

\* One request of POST /auth/login; the route has no middleware.  last.user is
\* the payload of the token issued, last.arg the mobile number given.
Login ==
    /\ last.ep = "<none>"
    /\ \E body \in LoginBodies, fault \in 0..1 :
       \E first \in FirstRows(DB, body) :
          LET r == LoginHandler(DB, body, first, fault) IN
          /\ last' = [ep |-> "POST /auth/login", tok |-> "none", user |-> r.token,
                      guarded |-> FALSE, roles |-> Roles, arg |-> body.mobile,
                      fault |-> fault, ran |-> TRUE, sent |-> r.res.sent,
                      ids |-> r.res.ids, calls |-> r.res.calls, aux |-> r.res.aux,
                      threw |-> r.res.threw]
          /\ UNCHANGED <<organizations, users, templates, id_cards, agents, tempUploads, nextId, inflight>>

\* Accounts: organizations created and deleted, staff registered, logins.
InitAccounts == InitFrom(EmptyDB)
NextAccounts == \/ CreateOrganizationOk \/ RegisterStaffWithPin \/ DeleteOrganization
                \/ Login \/ EndRequest
SpecAccounts == InitAccounts /\ [][NextAccounts]_vars

\* Logins to the accounts of one organization, before and after its deletion.
OneOrgDB ==
    CreateOrganizationHandler(EmptyDB, TokenPayload(Owner), OrgBody(1, 1, 1), NoFault).db

InitLogin == InitFrom(OneOrgDB)
NextLogin == RegisterStaffWithPin \/ DeleteOrganization \/ Login \/ EndRequest
SpecLogin == InitLogin /\ [][NextLogin]_vars


(***************************************************************************)
(* routes/idCards.ts (part_006): POST / as the steps between its awaits.   *)
(* inflight holds the requests whose handler is suspended at a database    *)
(* call, each with the call it will make next (pc).                        *)
(***************************************************************************)
MaxInflight == 2     \* requests of POST /id-cards in progress at once

Slots == 1..MaxInflight

\* The response of a request of POST /id-cards, as the request just served.
CardResponse(user, status, ids, calls) ==
    [ep |-> "POST /id-cards", tok |-> "valid", user |-> user, guarded |-> TRUE,
     roles |-> {"admin", "staff"}, arg |-> 0, fault |-> 0, ran |-> TRUE,
     sent |-> <<status>>, ids |-> ids, calls |-> calls, aux |-> 0, threw |-> ""]

\* The request r continues to its next database call, or is answered.
Continue(r, pc) == inflight' = (inflight \ {r}) \cup {[r EXCEPT !.pc = pc]}

Answer(r, status, ids, calls) ==
    /\ inflight' = inflight \ {r}
    /\ last' = CardResponse(r.user, status, ids, calls)

\* The bodies of the requests in progress: those that pass the checks made
\* before the first await, with or without the mobile number.
RaceBodies == [templateId : 1..MaxTemplateId, idNo : 1..2,
               has : {{"name", "photo"}, {"name", "photo", "mobile"}},
               department : {NoDept}]

\* part_006:77-92: the middleware and the checks before the first await; the
\* handler then awaits SELECT templates.  limit: the cards the model lets the
\* table hold.
BeginCreateIdCard(limit) ==
    /\ Cardinality(id_cards) + Cardinality(inflight) < limit
    /\ \E s \in Slots, h \in AuthHeaders(DB), body \in RaceBodies :
       LET g == Gate(h, TRUE, {"admin", "staff"})
           user == sanitizeUserData(g.user)
           businessUser == getUserWithDefaults(user)
       IN /\ ~\E r \in inflight : r.slot = s
          /\ g.status = 0
          /\ businessUser.canCreateTemplates
          /\ body.templateId # NULL /\ "name" \in body.has /\ body.idNo # NULL
          /\ "photo" \in body.has
          /\ inflight' = inflight \cup {[slot |-> s, user |-> user, body |-> body,
                                         pc |-> "template", row |-> NULL]}
          /\ UNCHANGED <<organizations, users, templates, id_cards, agents, tempUploads, nextId, last>>

\* part_006:94-131: SELECT templates returns; the template and the required
\* fields are checked; the handler awaits SELECT COUNT.
CardTemplateStep ==
    \E r \in inflight :
       /\ r.pc = "template"
       /\ IF TemplateOfOrganization(DB, r.body.templateId, r.user.organization_id) = {}
          THEN Answer(r, 400, {}, 1)
          ELSE LET template == CHOOSE t \in templates : t.id = r.body.templateId
                   requiredFields == SeqRange(safeJsonParse(template.fields))
               IN IF (requiredFields \cap CheckedFields) \ (r.body.has \cup {"id_no"}) # {}
                  THEN Answer(r, 400, {}, 1)
                  ELSE Continue(r, "count") /\ last' = last
       /\ UNCHANGED <<organizations, users, templates, id_cards, agents, tempUploads, nextId>>

\* part_006:132-139: SELECT COUNT returns; the limit is checked; the handler
\* awaits the SELECT of the ID number.
CardCountStep ==
    \E r \in inflight :
       /\ r.pc = "count"
       /\ IF Cardinality({c \in id_cards : c.created_by = r.user.id})
               >= getUserWithDefaults(r.user).maxIdCards
          THEN Answer(r, 400, {}, 2)
          ELSE Continue(r, "idNo") /\ last' = last
       /\ UNCHANGED <<organizations, users, templates, id_cards, agents, tempUploads, nextId>>

\* part_006:140-149: the SELECT of the ID number returns; the handler awaits
\* the INSERT.
CardIdNoStep ==
    \E r \in inflight :
       /\ r.pc = "idNo"
       /\ IF \E c \in id_cards : /\ c.id_no = r.body.idNo
                                 /\ c.organization_id = r.user.organization_id
          THEN Answer(r, 400, {}, 3)
          ELSE Continue(r, "insert") /\ last' = last
       /\ UNCHANGED <<organizations, users, templates, id_cards, agents, tempUploads, nextId>>

\* part_006:150-171: the INSERT is executed; the handler awaits the SELECT of
\* the created card.
CardInsertStep ==
    \E r \in inflight :
       /\ r.pc = "insert"
       /\ LET row == [id |-> nextId.id_cards, template_id |-> r.body.templateId,
                      organization_id |-> r.user.organization_id,
                      department |-> r.body.department, created_by |-> r.user.id,
                      id_no |-> r.body.idNo, status |-> "active"]
          IN /\ id_cards' = id_cards \cup {row}
             /\ nextId' = [nextId EXCEPT !.id_cards = @ + 1]
             /\ inflight' = (inflight \ {r}) \cup {[r EXCEPT !.pc = "created", !.row = row.id]}
       /\ UNCHANGED <<organizations, users, templates, agents, tempUploads, last>>

\* part_006:172-193: the SELECT of the created card returns; 201 is sent.
CardCreatedStep ==
    \E r \in inflight :
       /\ r.pc = "created"
       /\ Answer(r, 201, {r.row}, 5)
       /\ UNCHANGED <<organizations, users, templates, id_cards, agents, tempUploads, nextId>>

CardSteps ==
    CardTemplateStep \/ CardCountStep \/ CardIdNoStep \/ CardInsertStep \/ CardCreatedStep

\* Requests of POST /id-cards in progress together, in two organizations.
InitRace == InitFrom(TwoTemplatesDB)
NextRace == BeginCreateIdCard(MaxCardId + 1) \/ CardSteps
SpecRace == InitRace /\ [][NextRace]_vars


\* The first admin one card short of its limit: the database after it has
\* created that many cards, with ID numbers apart from those requests carry.
NearLimitDB ==
    LET admin == CHOOSE u \in TwoTemplatesDB.users : u.role = "admin" /\ u.organization_id = 1
        n == getMaxIdCards("admin") - 1
    IN [TwoTemplatesDB EXCEPT
          !.id_cards = {[id |-> i, template_id |-> 1, organization_id |-> 1,
                         department |-> NoDept, created_by |-> admin.id,
                         id_no |-> i + 2, status |-> "active"] : i \in 1..n},
          !.nextId.id_cards = n + 1]

\* Requests of POST /id-cards in progress together, at the limit.
InitLimit == InitFrom(NearLimitDB)
NextLimit == BeginCreateIdCard(getMaxIdCards("admin") + MaxInflight) \/ CardSteps
SpecLimit == InitLimit /\ [][NextLimit]_vars


\* Templates and the ID cards that refer to them.
\* POST /id-cards with every field a template may require, whatever the template.
CreateIdCardOfTemplate ==
    /\ nextId.id_cards <= MaxCardId
    /\ Route("POST /id-cards", TRUE, {"admin", "staff"},
             [arg : {0}, fault : {0},
              body : {b \in CardBodies : /\ b.has = {"name", "photo", "mobile"}
                                         /\ b.idNo # 0 /\ b.department = NoDept}],
             LAMBDA u, x : CreateIdCardHandler(DB, sanitizeUserData(u), x.body, x.fault))

\* PUT /templates/:id that keeps the name and replaces the field list.
UpdateTemplateFields ==
    Route("PUT /templates/:id", TRUE, {"admin"},
          [arg : 1..MaxTemplateId, fault : {0},
           body : {b \in TemplateBodies : b.name = Str(<<"a">>) /\ b.rest
                                          /\ b.fields # Arr(<<"bogus">>)}],
          LAMBDA u, x : UpdateTemplateHandler(DB, u, x.arg, x.body, x.fault))

InitCardTemplates == InitFrom(TwoTemplatesDB)
NextCardTemplates ==
    CreateIdCardOfTemplate \/ UpdateTemplateFields \/ DeleteTemplate \/ EndRequest
SpecCardTemplates == InitCardTemplates /\ [][NextCardTemplates]_vars


(***************************************************************************)
(* routes/idCards.ts (part_006): PATCH /:id/status                         *)
(***************************************************************************)
\* The rows of UPDATE id_cards ... WHERE id = ? AND organization_id = ?
\* (part_006:368).
CardsWithId(db, id, organizationId) ==
    {c \in db.id_cards : c.id = id}

CardsOfOrganization(db, id, organizationId) ==
    {c \in db.id_cards : c.id = id /\ organizationId # NULL
                         /\ c.organization_id = organizationId}

\* PATCH /id-cards/:id/status handler (part_006:356-387).  body: [status].
\* Database call: 1 UPDATE; affectedRows counts the rows the WHERE matched.
PatchIdCardStatusHandler(db, user, id, body, fault) ==
    LET safeUser == getUserWithDefaults(user)
        matched == CardsOfOrganization(db, id, safeUser.organization_id)
        upd(c) == IF c \in matched THEN [c EXCEPT !.status = body.status] ELSE c
    IN
    IF body.status \notin {"active", "expired"} THEN Res(db, <<400>>, {}, 0, 0)
    ELSE IF fault = 1 THEN Caught(db, 1)
    ELSE IF matched = {} THEN Res(db, <<404>>, {}, 1, 0)
    ELSE Res([db EXCEPT !.id_cards = {upd(c) : c \in @}], <<200>>, {id}, 1, 0)

\* The `status` member of the body: a card status, another word, or absent.
StatusInputs == {"active", "expired", "deleted", "<undefined>"}

PatchIdCardStatus ==
    Route("PATCH /id-cards/:id/status", TRUE, {"admin"},
          [arg : 1..MaxCardId, fault : 0..1, body : [status : StatusInputs]],
          LAMBDA u, x : PatchIdCardStatusHandler(DB, sanitizeUserData(u), x.arg, x.body, x.fault))

\* PUT /organizations/:id that changes the name, the mobile number or both.
UpdateOrganizationNameOrMobile ==
    Route("PUT /organizations/:id", TRUE, {"owner", "agent", "admin"},
          [arg : 1..MaxOrgId, fault : {0},
           body : {b \in OrgUpdates : ~b.other /\ b.name \in {NULL, 1} /\ b.mobile \in {NULL, 3}}],
          LAMBDA u, x : UpdateOrganizationHandler(DB, u, x.arg, x.body, x.fault))

\* TwoTemplatesDB after the admin of the second organization has issued a card.
OneCardDB ==
    LET admin == CHOOSE u \in TwoTemplatesDB.users : u.role = "admin" /\ u.organization_id = 2
    IN CreateIdCardHandler(TwoTemplatesDB, sanitizeUserData(TokenPayload(admin)),
           [templateId |-> 2, idNo |-> 1, has |-> {"name", "photo", "mobile"},
            department |-> "General"], 0).db

\* The writes an admin or staff caller can aim at a row by its id.
InitFrame == InitFrom(OneCardDB)
NextFrame ==
    \/ UpdateTemplateFields
    \/ DeleteTemplate
    \/ PatchIdCardStatus
    \/ UpdateOrganizationNameOrMobile
    \/ CreateIdCardOfTemplate
    \/ EndRequest
SpecFrame == InitFrame /\ [][NextFrame]_vars


(***************************************************************************)
(* routes/users.ts: POST /register-staff as the steps between its awaits.  *)
(* A request in inflight is suspended at its SELECT (pc "select") or at    *)
(* its INSERT (pc "insert"), or has been answered (pc "done", with the     *)
(* status sent).                                                           *)
(***************************************************************************)
\* users.ts:46-57: the middleware and the check of the token's organization;
\* the handler then awaits the SELECT of the mobile number.
BeginRegisterStaff ==
    /\ nextId.users + Cardinality({r \in inflight : r.pc # "done"}) <= MaxUserId
    /\ \E s \in Slots, h \in AuthHeaders(DB), mobile \in Mobiles, pin \in {GoodPin, OtherPin} :
       LET g == Gate(h, TRUE, {"admin"}) IN
       /\ ~\E r \in inflight : r.slot = s
       /\ g.status = 0
       /\ g.user.organization_id # NULL
       /\ inflight' = inflight \cup
             {[slot |-> s, user |-> g.user,
               body |-> [mobile |-> mobile, department |-> NoDept, pin |-> pin],
               pc |-> "select", row |-> NULL, sent |-> 0]}
       /\ UNCHANGED <<organizations, users, templates, id_cards, agents, tempUploads, nextId, last>>

\* users.ts:58-63: the SELECT returns; a registered mobile number is answered
\* 400, else the handler hashes the PIN and awaits the INSERT.
StaffSelectStep ==
    \E r \in inflight :
       /\ r.pc = "select"
       /\ IF \E u \in users : u.mobile = r.body.mobile
          THEN inflight' = (inflight \ {r}) \cup {[r EXCEPT !.pc = "done", !.sent = 400]}
          ELSE Continue(r, "insert")
       /\ UNCHANGED <<organizations, users, templates, id_cards, agents, tempUploads, nextId, last>>

\* users.ts:65-76: the INSERT is executed and 201 is sent.
StaffInsertStep ==
    \E r \in inflight :
       /\ r.pc = "insert"
       /\ LET row == [id |-> nextId.users, mobile |-> r.body.mobile, role |-> "staff",
                      organization_id |-> r.user.organization_id,
                      department |-> r.body.department, status |-> "active",
                      pin_hash |-> hashPin(r.body.pin)]
          IN /\ users' = users \cup {row}
             /\ nextId' = [nextId EXCEPT !.users = @ + 1]
             /\ inflight' = (inflight \ {r})
                               \cup {[r EXCEPT !.pc = "done", !.sent = 201, !.row = row.id]}
       /\ UNCHANGED <<organizations, templates, id_cards, agents, tempUploads, last>>

\* Requests of POST /users/register-staff in progress together.
InitStaffRace == InitFrom(OneOrgDB)
NextStaffRace == BeginRegisterStaff \/ StaffSelectStep \/ StaffInsertStep
SpecStaffRace == InitStaffRace /\ [][NextStaffRace]_vars


(***************************************************************************)
(* routes/upload.ts (templates.ts:256-520): POST /upload as the steps      *)
(* between its awaits.  tempUploads holds the files of temp-uploads/; a    *)
(* request in inflight carries its multer file (NULL: none), the state of  *)
(* its ftp.Client and, once answered (pc "done"), the status sent.  A      *)
(* request whose handler threw out of its catch is never answered (pc      *)
(* "thrown").  Of the caller the request keeps the id, which the handler   *)
(* puts in the remote file name.                                           *)
(***************************************************************************)
\* The directories of typeDir, '/perfectinfosoft.com/app_uploads/${type}'.
TypeDirParts == 3

\* What the FTP server does with the commands sent for one directory: cd,
\* MKD, the second cd and CWD each succeed or fail; a command that is not
\* sent (MKD after a cd that succeeded, CWD after a second cd that did) is
\* FALSE.
PartOutcomes ==
    {p \in [cd : BOOLEAN, mkd : BOOLEAN, cdAgain : BOOLEAN, cwd : BOOLEAN] :
        /\ p.cd => ~p.mkd /\ ~p.cdAgain /\ ~p.cwd
        /\ p.cdAgain => ~p.cwd}

\* ensureFtpDirectory (templates.ts:315-349): TRUE when it returns, FALSE when
\* it throws.  root, back: the cd('/') before and after the loop; parts: the
\* outcomes for each directory in turn.  A failed MKD is swallowed; a
\* directory is entered by cd, by the cd after MKD, or by CWD.
RECURSIVE EnterParts(_)
EnterParts(parts) ==
    IF parts = <<>> THEN TRUE
    ELSE LET p == Head(parts) IN
         (p.cd \/ p.cdAgain \/ p.cwd) /\ EnterParts(Tail(parts))

ensureFtpDirectory(root, parts, back) == root /\ EnterParts(parts) /\ back

\* What ensureFtpDirectory can do for typeDir, over everything the server can
\* answer.
EnsureResults ==
    {ensureFtpDirectory(root, parts, back) :
        root \in BOOLEAN, back \in BOOLEAN, parts \in [1..TypeDirParts -> PartOutcomes]}

\* fs.existsSync(tempFilePath) && fs.unlinkSync(tempFilePath): the files left
\* when unlinkSync succeeds.
Unlinked(files, tempFilePath) == files \ {tempFilePath}

\* The request r is answered, or its handler throws out of the catch.
UploadDone(r, client, sent) ==
    inflight' = (inflight \ {r}) \cup {[r EXCEPT !.pc = "done", !.client = client,
                                                 !.sent = sent]}

UploadThrown(r, client) ==
    inflight' = (inflight \ {r}) \cup {[r EXCEPT !.pc = "thrown", !.client = client]}

\* The catch block (templates.ts:433-451) without the removal of the file.
UploadCatchKeepsFile(r, client, unlinkThrows) ==
    UploadDone(r, "closed", 500) /\ tempUploads' = tempUploads

\* The catch block (templates.ts:433-451): the temporary file is removed if
\* it exists, the client is closed, 500 is sent.  unlinkSync throwing leaves
\* the catch before close() and before the response.  client: the state of
\* the request's client when the catch is entered.
UploadCatch(r, client, unlinkThrows) ==
    IF r.file # NULL /\ r.file \in tempUploads /\ unlinkThrows
    THEN UploadThrown(r, client) /\ tempUploads' = tempUploads
    ELSE /\ UploadDone(r, "closed", 500)
         /\ tempUploads' = IF r.file # NULL THEN Unlinked(tempUploads, r.file)
                           ELSE tempUploads

\* templates.ts:352-393: authenticateToken, multer (which stores the file of
\* the request under a name of its own in temp-uploads/), the check of
\* req.file and the file name; the handler then awaits client.access.
\* originalName: the body's member is a string or absent (TRUE), or of
\* another type, and .replace throws.
BeginUpload ==
    \E s \in Slots, h \in AuthHeaders(DB), stored \in BOOLEAN, originalName \in BOOLEAN :
       LET g == Gate(h, FALSE, Roles)
           r == [slot |-> s, user |-> g.user.id, file |-> IF stored THEN s ELSE NULL,
                 pc |-> "access", client |-> "new", sent |-> 0]
       IN /\ ~\E q \in inflight : q.slot = s
          /\ g.status = 0
          /\ IF ~stored
             THEN /\ inflight' = inflight \cup {[r EXCEPT !.pc = "done", !.sent = 400]}
                  /\ tempUploads' = tempUploads
             ELSE IF ~originalName
             THEN /\ inflight' = inflight \cup {[r EXCEPT !.pc = "catch"]}
                  /\ tempUploads' = tempUploads \cup {s}
             ELSE /\ inflight' = inflight \cup {r}
                  /\ tempUploads' = tempUploads \cup {s}
          /\ UNCHANGED <<organizations, users, templates, id_cards, agents, nextId, last>>

\* templates.ts:433-451, entered from a throw before the first await.
UploadCatchStep ==
    \E r \in inflight, unlinkThrows \in BOOLEAN :
       /\ r.pc = "catch"
       /\ UploadCatch(r, r.client, unlinkThrows)
       /\ UNCHANGED <<organizations, users, templates, id_cards, agents, nextId, last>>

\* templates.ts:394-397: client.access returns or throws; a failed access
\* leaves the client as it was or with its control socket open.
UploadAccessStep ==
    \E r \in inflight, ok \in BOOLEAN, socket \in {"new", "open"}, unlinkThrows \in BOOLEAN :
       /\ r.pc = "access"
       /\ IF ok
          THEN /\ inflight' = (inflight \ {r})
                                 \cup {[r EXCEPT !.pc = "ensure", !.client = "open"]}
               /\ tempUploads' = tempUploads
          ELSE UploadCatch(r, socket, unlinkThrows)
       /\ UNCHANGED <<organizations, users, templates, id_cards, agents, nextId, last>>

\* templates.ts:399-401: ensureFtpDirectory returns or throws.
UploadEnsureStep ==
    \E r \in inflight, returned \in EnsureResults, unlinkThrows \in BOOLEAN :
       /\ r.pc = "ensure"
       /\ IF returned
          THEN Continue(r, "transfer") /\ tempUploads' = tempUploads
          ELSE UploadCatch(r, r.client, unlinkThrows)
       /\ UNCHANGED <<organizations, users, templates, id_cards, agents, nextId, last>>

\* templates.ts:403-432: client.uploadFrom returns or throws; after it the
\* client is closed, the temporary file removed and 200 sent.  unlinkSync
\* throwing there enters the catch with the client closed.
UploadTransferStep ==
    \E r \in inflight, ok \in BOOLEAN, unlinkThrows \in BOOLEAN, unlinkThrowsAgain \in BOOLEAN :
       /\ r.pc = "transfer"
       /\ IF ~ok THEN UploadCatch(r, r.client, unlinkThrows)
          ELSE IF r.file \in tempUploads /\ unlinkThrows
          THEN UploadCatch(r, "closed", unlinkThrowsAgain)
          ELSE /\ UploadDone(r, "closed", 200)
               /\ tempUploads' = Unlinked(tempUploads, r.file)
       /\ UNCHANGED <<organizations, users, templates, id_cards, agents, nextId, last>>

\* Requests of POST /upload in progress together.
InitUpload == InitFrom(OneOrgDB)
NextUpload == \/ BeginUpload \/ UploadCatchStep \/ UploadAccessStep
              \/ UploadEnsureStep \/ UploadTransferStep
SpecUpload == InitUpload /\ [][NextUpload]_vars

(***************************************************************************)
(* Properties.                                                             *)
(***************************************************************************)
\* C1: no two stored templates of one organization have the same name.
C1_TemplateNameUniquePerOrganization ==
    \A t1 \in templates, t2 \in templates :
        (t1.organization_id = t2.organization_id /\ t1.name = t2.name) => t1.id = t2.id

\* C2: no two rows of users have the same mobile number.
C2_MobileUnique ==
    \A u1 \in users, u2 \in users : u1.mobile = u2.mobile => u1.id = u2.id

OrganizationRow(o) == \E r \in organizations : r.id = o
AdminRow(o) == \E u \in users : u.role = "admin" /\ u.organization_id = o

\* C3: an organization row exists exactly when its admin user row exists; a
\* finished POST /organizations whose INSERT failed has left neither row, and
\* one answered 201 has left both.
C3_OrganizationCreationAtomic ==
    /\ \A o \in 1..(MaxOrgId + 1) : OrganizationRow(o) <=> AdminRow(o)
    /\ (last.ep = "POST /organizations" /\ last.fault \in {6, 7})
          => (~OrganizationRow(last.aux) /\ ~AdminRow(last.aux))
    /\ (last.ep = "POST /organizations" /\ last.sent = <<201>>)
          => (OrganizationRow(last.aux) /\ AdminRow(last.aux))

\* C3 witness: the INSERT of the admin user failed after the organization row
\* was inserted, and the request has been answered.
C3_Witness ==
    /\ last.ep = "POST /organizations" /\ last.fault = 7 /\ last.sent = <<500>>
    /\ ~OrganizationRow(last.aux)

\* C4: GET /organizations answers an owner with every organization, an agent
\* with the organizations whose agent_id is the caller's id, an admin with the
\* organization whose id is the caller's organization_id, and staff with 403
\* and no organization.
C4_OrganizationsByRole ==
    (last.ep = "GET /organizations" /\ last.ran /\ last.threw = "") =>
        /\ last.user.role = "owner" =>
              last.sent = <<200>> /\ last.ids = {o.id : o \in organizations}
        /\ last.user.role = "agent" =>
              /\ last.sent = <<200>>
              /\ last.ids = {i \in 1..(MaxOrgId + 1) :
                               \E o \in organizations : o.id = i /\ o.agent_id = last.user.id}
        /\ last.user.role = "admin" =>
              /\ last.sent = <<200>>
              /\ last.ids = {i \in 1..(MaxOrgId + 1) :
                               OrganizationRow(i) /\ i = last.user.organization_id}
        /\ last.user.role = "staff" => last.sent = <<403>> /\ last.ids = {}

\* C4 witness: an agent was answered with some organizations, not all.
C4_Witness ==
    /\ last.ep = "GET /organizations" /\ last.user.role = "agent"
    /\ last.sent = <<200>> /\ last.ids # {}
    /\ last.ids # {o.id : o \in organizations}

Card(i) == CHOOSE c \in id_cards : c.id = i

\* C5: GET /id-cards answers an owner with every ID card, an admin with exactly
\* the cards whose organization_id is the caller's organization_id, and a
\* staff caller with exactly the cards whose created_by is the caller's id and
\* whose department is NULL or the caller's department.
C5_IdCardsByRole ==
    (last.ep = "GET /id-cards" /\ last.ran /\ last.threw = "") =>
        /\ last.user.role \in {"owner", "admin", "staff"} => last.sent = <<200>>
        /\ last.user.role = "owner" => last.ids = {c.id : c \in id_cards}
        /\ last.user.role = "admin" =>
              last.ids = {i \in 1..(MaxCardId + 1) :
                            \E c \in id_cards :
                               c.id = i /\ c.organization_id = last.user.organization_id}
        /\ last.user.role = "staff" =>
              last.ids = {i \in 1..(MaxCardId + 1) :
                            \E c \in id_cards :
                               /\ c.id = i /\ c.created_by = last.user.id
                               /\ c.department \in {NoDept, last.user.department}}

\* C5 witness: an admin was answered with some ID cards, not all.
C5_Witness ==
    /\ last.ep = "GET /id-cards" /\ last.user.role = "admin"
    /\ last.sent = <<200>> /\ last.ids # {}
    /\ last.ids # {c.id : c \in id_cards}

\* C6: GET /id-cards/:id answers 200 with a card only to an owner, to an admin
\* whose organization_id is the card's, or to a staff caller who created the
\* card; a caller of any other role never retrieves a card of an organization.
C6_IdCardInScope ==
    (last.ep = "GET /id-cards/:id" /\ last.sent = <<200>>) =>
        \/ last.user.role = "owner"
        \/ /\ last.user.role = "admin"
           /\ Card(last.arg).organization_id = last.user.organization_id
        \/ /\ last.user.role = "staff"
           /\ Card(last.arg).created_by = last.user.id

ReadsOfOrganizations ==
    {"GET /organizations", "GET /organizations/:id", "GET /organizations/:id/stats"}

\* C7: a staff caller is answered 403, with no data of any organization, by
\* GET /organizations, GET /organizations/:id and GET /organizations/:id/stats
\* (stated for the requests whose database calls succeed and, for the two
\* routes with an id, whose organization exists).
C7_StaffCannotViewOrganizations ==
    (/\ last.ep \in ReadsOfOrganizations /\ last.ran /\ last.threw = ""
     /\ last.user.role = "staff"
     /\ (last.ep = "GET /organizations" \/ OrganizationRow(last.arg)))
        => (last.sent = <<403>> /\ last.ids = {})

Rejected(status) == last.sent = <<status>> /\ ~last.ran /\ last.calls = 0

\* C9: a request without a token is answered 401, one with a token that does
\* not verify 403, one to a route under requireRole(R) with a verified token
\* whose role is not in R 403; in the three cases the handler does not run and
\* no row is read or written; a handler that runs, runs for a verified token,
\* whose role is in R on a route under requireRole(R).
C9_GuardedRoutes ==
    /\ [](last.ep # "<none>" =>
            /\ last.tok = "none" => Rejected(401)
            /\ last.tok = "invalid" => Rejected(403)
            /\ (last.tok = "valid" /\ last.guarded /\ last.user.role \notin last.roles)
                  => Rejected(403)
            /\ last.ran => /\ last.tok = "valid"
                           /\ last.guarded => last.user.role \in last.roles)
    /\ [][(last'.ep # "<none>" /\ ~last'.ran)
            => UNCHANGED <<organizations, users, templates, id_cards, agents, nextId>>]_vars

\* C9 witness: a verified token whose role is not in R was answered 403 by a
\* route under requireRole(R).
C9_Witness ==
    /\ last.ep # "<none>" /\ last.guarded /\ last.tok = "valid"
    /\ last.user.role \notin last.roles /\ last.sent = <<403>> /\ ~last.ran

\* C10: a request whose handler ran has exactly one response; when one of its
\* database calls failed the response is 500, or 400 when the failure is a
\* duplicate-entry error of the transaction of POST /organizations.
C10_ExactlyOneResponse ==
    last.ran =>
        /\ Len(last.sent) = 1
        /\ last.threw # "" =>
              last.sent = <<IF /\ last.ep = "POST /organizations"
                               /\ last.threw \in {"ER_DUP_ENTRY mobile", "ER_DUP_ENTRY"}
                            THEN 400 ELSE 500>>

\* C10 witness: the INSERT of the admin user of POST /organizations failed on a
\* duplicate mobile, and the request was answered 400, once.
C10_Witness ==
    /\ last.ep = "POST /organizations" /\ last.ran /\ last.fault = 7
    /\ last.threw = "ER_DUP_ENTRY mobile" /\ last.sent = <<400>>

\* The template a stored card names, when it is stored.
TemplateOf(c) == CHOOSE t \in templates : t.id = c.template_id

\* The fields for which a body of POST /id-cards carries a non-empty value.
Supplied(b) ==
    b.has \cup (IF b.idNo # NULL THEN {"id_no"} ELSE {})
          \cup (IF b.department # NoDept THEN {"department"} ELSE {})

\* A request of POST /id-cards by u that names a template of u's organization,
\* supplies the basic and the template's fields, uses an ID number free in the
\* organization, and is made below the limit of 100 cards.
ValidStaffCardRequest(u, b) ==
    /\ u.role = "staff"
    /\ \E t \in templates :
          /\ t.id = b.templateId /\ t.organization_id = u.organization_id
          /\ SeqRange(safeJsonParse(t.fields)) \subseteq Supplied(b)
    /\ {"name", "id_no", "photo"} \subseteq Supplied(b)
    /\ ~\E c \in id_cards : c.id_no = b.idNo /\ c.organization_id = u.organization_id
    /\ Cardinality({c \in id_cards : c.created_by = u.id}) < 100

\* C11: a valid request of POST /id-cards by a staff caller is answered 201 and
\* stores a card whose created_by is the caller's id.
C11_StaffCanIssueCards ==
    \A t \in Tokens(DB), b \in CardBodies :
        (t.sig = "ok" /\ ValidStaffCardRequest(t.payload, b)) =>
            LET r == CreateIdCardHandler(DB, sanitizeUserData(t.payload), b, 0)
            IN /\ requireRole({"admin", "staff"}, t.payload) = 0
               /\ r.sent = <<201>>
               /\ \E c \in r.db.id_cards \ id_cards : c.created_by = t.payload.id

\* C18: every stored card carries a value for the fields its template lists;
\* of the fields a card row keeps in the model, `department` is such a field.
C18_RequiredFieldsOfTemplate ==
    \A c \in id_cards :
        (\E t \in templates : t.id = c.template_id) =>
            ("department" \in SeqRange(safeJsonParse(TemplateOf(c).fields))
                => c.department # NoDept)

\* C12: an organization a caller with role agent has created is stored with
\* agent_id equal to that caller's id (the row GET /organizations selects for
\* an agent by agent_id = the caller's id).
C12_AgentOwnsCreatedOrganization ==
    (last.ep = "POST /organizations" /\ last.sent = <<201>> /\ last.user.role = "agent")
        => \E o \in organizations : o.id = last.aux /\ o.agent_id = last.user.id

DeleteSucceeded(o) ==
    last.ep = "DELETE /organizations/:id" /\ last.sent = <<200>> /\ last.arg = o

Deactivated(o) ==
    /\ \E r \in organizations : r.id = o /\ r.status = "inactive"
    /\ \A u \in users : u.organization_id = o => u.status = "inactive"

\* C13: when DELETE /organizations/:id has been answered 200 for organization
\* o, o and every user whose organization_id is o have status 'inactive', and
\* no later request changes that: an organization that is inactive with all its
\* users inactive stays so at every step.
C13_DeletedStaysInactive ==
    /\ [](\A o \in 1..MaxOrgId : DeleteSucceeded(o) => Deactivated(o))
    /\ [][\A o \in 1..MaxOrgId : Deactivated(o) => Deactivated(o)']_vars

\* A user row that may log in with the body's mobile and PIN.
Credentialed(u, body) ==
    /\ u.mobile = body.mobile /\ u.status = "active"
    /\ body.pin.t = "string" /\ u.pin_hash = hashPin(body.pin)

C15_IdNoUniquePerOrganization ==
    \A c1 \in id_cards, c2 \in id_cards :
        (c1.organization_id = c2.organization_id /\ c1.id_no = c2.id_no) => c1.id = c2.id

\* The card limit of a role.
CardLimit(role) ==
    CASE role = "staff" -> 100 [] role = "admin" -> 1000 [] role = "owner" -> 10000
      [] OTHER -> 100

\* C16: the number of ID cards stored with created_by = u never exceeds the
\* card limit of u's role.
C16_CardLimitRespected ==
    \A u \in users :
        Cardinality({c \in id_cards : c.created_by = u.id}) <= CardLimit(u.role)

C19_TemplateFieldsValid ==
    \A t \in templates :
        /\ t.fields.json = "array"
        /\ t.fields.items # <<>>
        /\ SeqRange(t.fields.items) \subseteq AVAILABLE_FIELDS

\* The rows of a table that belong to other organizations than o.
OfOthers(rows, o) == {r \in rows : r.organization_id # o}

C21_OneStaffPerMobile ==
    \A m \in Mobiles :
        /\ Cardinality({r \in inflight : r.pc = "done" /\ r.sent = 201
                                         /\ r.body.mobile = m}) <= 1
        /\ Cardinality({u \in users : u.mobile = m}) <= 1

\* C22: for a caller of each of the four roles GET /id-cards executes a
\* statement it has chosen, never the empty string, and answers 200 unless the
\* database fails.
C22_IdCardsQueryChosen ==
    (last.ep = "GET /id-cards" /\ last.ran /\ last.fault = 0 /\ last.user.role \in Roles)
        => /\ IdCardsQuery(getUserWithDefaults(sanitizeUserData(last.user))) # ""
           /\ last.sent = <<200>>

\* C23: once POST /upload has answered a request for which multer stored a
\* temporary file, that file is gone from temp-uploads/ and the FTP client
\* has been closed, whether the connection, the directory creation or the
\* transfer succeeded or failed.
C23_UploadCleansUp ==
    \A r \in inflight :
        (r.pc = "done" /\ r.file # NULL) => (r.file \notin tempUploads /\ r.client = "closed")

\* C23 witness: a request with a stored file has been answered 500 after its
\* connection was open, and another has been answered 200.
C23_Witness ==
    /\ \E r \in inflight : r.pc = "done" /\ r.file # NULL /\ r.sent = 500
    /\ \E r \in inflight : r.pc = "done" /\ r.file # NULL /\ r.sent = 200

====
